---- MODULE Spec2Model ----
(***************************************************************************)
(* fetch-private-channels (cmd/fetch_private_channels.go): the source      *)
(* archive is copied entry by entry into a fresh target archive, a         *)
(* "groups.json" entry is created, and, when the source held no such       *)
(* entry, the private channels and their histories and thread replies are  *)
(* fetched page by page from the remote API and serialized into entries.   *)
(*                                                                         *)
(* The program is sequential: pc is its position, one action is one loop   *)
(* iteration or one call that can fail.  The remote API and the file       *)
(* system are the environment; their answers are drawn with \E.            *)
(***************************************************************************)
EXTENDS Integers, Sequences, FiniteSets, TLC

(***************************************************************************)
(* Bounds of the model.                                                    *)
(***************************************************************************)
\* most entries of a source archive
MaxSrc == 2
\* most pages the remote serves for one pagination in the fetcher-level runs
MaxPages == 2
\* the most iterations of a pagination the model follows when the remote never
\* returns the empty cursor
MaxLoop == 3

(***************************************************************************)
(* JSON values as encoding/json decodes them into interface{}: a value is  *)
(* a pair <<type, text>>.  A key that is missing from a map reads as the   *)
(* nil interface, Absent.                                                  *)
(***************************************************************************)
Str(s) == <<"string", s>>
Num(s) == <<"number", s>>
Null == <<"null", "">>
Absent == <<"absent", "">>

\* v.(string): the value and whether the assertion succeeded
IsString(v) == v[1] = "string"
\* v.(float64): encoding/json decodes every JSON number to float64
IsFloat64(v) == v[1] = "number"

\* a map[string]interface{} restricted to the keys the program reads, and a
\* payload that stands for every other key
Rec(id, name, rc, ts, body) == [id |-> id, name |-> name, reply_count |-> rc, ts |-> ts, body |-> body]

Channel(id, name) == Rec(Str(id), Str(name), Absent, Absent, "channel")
Message(rc, ts, body) == Rec(Absent, Absent, rc, ts, body)

RECURSIVE Flatten(_)
\* append(res, page...) over a sequence of pages
Flatten(pages) == IF pages = <<>> THEN <<>> ELSE Head(pages) \o Flatten(Tail(pages))

SeqsUpTo(S, n) == UNION {[1..k -> S] : k \in 0..n}
NonEmptySeqsUpTo(S, n) == UNION {[1..k -> S] : k \in 1..n}

(***************************************************************************)
(* Archives.  An entry is a header and the bytes written under it; the     *)
(* bytes are a sequence of chunks.  A chunk is either raw bytes copied     *)
(* from the source or one json.Encoder.Encode output.                      *)
(***************************************************************************)
Raw(b) == [kind |-> "raw", raw |-> b, indent |-> "", json |-> <<>>]

\* zip.FileHeader: the fields the run can tell apart
Header(name, method) == [name |-> name, method |-> method]

Entry(header, data) == [name |-> header.name, header |-> header, data |-> data]

\* an entry name: the directory part and the rest, so that channelName +
\* "/messages.json" is Path(channelName, "/messages.json")
Path(dir, file) == <<dir, file>>
GroupsJson == Path("", "groups.json")

SourceEntries == {Entry(Header(GroupsJson, "Deflate"), <<Raw("g")>>), Entry(Header(Path("", "users.json"), "Deflate"), <<Raw("u"), Raw("v")>>), Entry(Header(Path("proj", "/messages.json"), "Store"), <<>>)}

SourceArchives == SeqsUpTo(SourceEntries, MaxSrc)

(***************************************************************************)
(* The remote API.  For one pagination (one listing, one channel's         *)
(* history, one thread's replies) the remote holds a script: the pages it  *)
(* will serve.  Page i carries the cursor that leads to page i+1, and the  *)
(* last page carries the empty cursor.  A request names the page it wants  *)
(* by its cursor parameter; a request without one gets page 1.             *)
(***************************************************************************)
Cursors == <<"k1", "k2", "k3", "k4", "k5", "k6">>

StatusOK == 200
\* the statuses the remote answers with: 200, one other 2xx, one 5xx
Statuses == {StatusOK, 204, 500}

Response(doErr, status, decodes, ok, recs, next) == [doErr |-> doErr, status |-> status, decodes |-> decodes, ok |-> ok, recs |-> recs, next |-> next]

\* the value of the request's cursor parameter, "" when it has none
CursorParam(req) == IF \E p \in req.query : p[1] = "cursor" THEN (CHOOSE p \in req.query : p[1] = "cursor")[2] ELSE ""

\* the cursor that leads back to page 1
Restart == "k0"

PageIndex(c) == IF c = "" \/ c = Restart THEN 1 ELSE IF \E i \in DOMAIN Cursors : Cursors[i] = c THEN 1 + (CHOOSE i \in DOMAIN Cursors : Cursors[i] = c) ELSE 0

\* the page the script holds for the request: ok=false for a cursor it never issued
Page(script, req) ==
    LET i == PageIndex(CursorParam(req))
    IN  IF i \in DOMAIN script
        THEN Response(FALSE, StatusOK, TRUE, TRUE, script[i], IF i < Len(script) THEN Cursors[i] ELSE "")
        ELSE Response(FALSE, StatusOK, TRUE, FALSE, <<>>, "")

\* what can come back instead of the page: no response at all, a status that is
\* not 200, a body that is no JSON, a body that says ok=false
Faults(page) ==
    {[page EXCEPT !.doErr = TRUE]}
    \cup {[page EXCEPT !.status = s] : s \in Statuses \ {StatusOK}}
    \cup {[page EXCEPT !.decodes = FALSE]}
    \cup {[page EXCEPT !.ok = FALSE]}

Answers(script, req) == {Page(script, req)} \cup Faults(Page(script, req))

\* a remote that never returns the empty cursor: its last page carries the
\* cursor that leads back to page 1
EndlessPage(script, req) ==
    LET page == Page(script, req)
    IN  IF page.ok /\ page.next = "" THEN [page EXCEPT !.next = Restart] ELSE page

EndlessAnswers(script, req) == {EndlessPage(script, req)} \cup Faults(EndlessPage(script, req))

(***************************************************************************)
(* The data the remote holds.  A run has a scope, which says where the     *)
(* remote's data is rich: in scope "run" the source archive varies and     *)
(* every pagination draws its script from a few fixed ones; in the scopes  *)
(* "list", "history" and "replies" the source archive is empty and the     *)
(* paginations of that fetcher draw from every sequence of up to MaxPages  *)
(* pages, the other fetchers from one or a few scripts.  In the scopes of  *)
(* Forever one endpoint never returns the empty cursor, and the model      *)
(* follows each of its paginations for MaxLoop requests.                   *)
(***************************************************************************)
Scopes == {"run", "list", "history", "replies"}
\* the scopes in which one endpoint never returns the empty cursor
Forever == [list |-> "list forever", history |-> "history forever", replies |-> "replies forever"]
EndlessScopes == {Forever[e] : e \in DOMAIN Forever}

ChanProj == Channel("C1", "proj")
ChanOps == Channel("C2", "ops")
\* another channel that goes by the name of ChanProj
ChanProjToo == Channel("C3", "proj")

\* thread parents
P1 == Message(Num("2"), Str("1.0"), "p1")
P2 == Message(Num("1"), Str("2.0"), "p2")
\* a thread parent whose ts is the empty string
P0 == Message(Num("1"), Str(""), "p0")
\* no reply_count
N1 == Message(Absent, Str("3.0"), "n1")
\* a reply_count that is no number
X1 == Message(Str("2"), Str("4.0"), "x1")
\* a reply_count and no ts, and a ts that is no string
Y1 == Message(Num("3"), Absent, "y1")
Y2 == Message(Num("3"), Num("5.0"), "y2")
\* replies
R1 == Message(Absent, Str("1.1"), "r1")
R2 == Message(Absent, Str("1.2"), "r2")

ChannelPages == {<<>>, <<ChanProj>>, <<ChanOps, ChanProjToo>>}
MessagePages == {<<>>, <<P1, N1>>, <<X1, P2, P1>>, <<Y1, P0, Y2>>}
ReplyPages == {<<>>, <<R1>>, <<R2, R1>>}

RunListScripts == {<<<<>>>>, <<<<ChanOps>>>>, <<<<ChanProj>>, <<ChanProjToo>>>>}
RunHistoryScripts == {<<<<N1>>>>, <<<<P1, N1>>, <<P2>>>>}
RunReplyScripts == {<<<<R1>>>>, <<<<R2>>, <<>>, <<R1>>>>}
\* histories with no thread parent, with two, and with the same one twice
ThreadedHistories == {<<<<N1>>>>, <<<<X1, P2, P1>>>>, <<<<P1, N1>>, <<P1>>>>}

ListScripts(sc) ==
    CASE sc = "run" -> RunListScripts
      [] sc = "list" -> NonEmptySeqsUpTo(ChannelPages, MaxPages)
      [] OTHER -> {<<<<ChanProj>>>>}
HistoryScripts(sc) ==
    CASE sc = "run" -> RunHistoryScripts
      [] sc = "history" -> NonEmptySeqsUpTo(MessagePages, MaxPages)
      [] sc = "replies" -> ThreadedHistories
      [] sc = Forever.replies -> {<<<<P1, N1>>>>}
      [] OTHER -> {<<<<N1>>>>}
ReplyScripts(sc) ==
    CASE sc = "run" -> RunReplyScripts
      [] sc = "replies" -> NonEmptySeqsUpTo(ReplyPages, MaxPages)
      [] OTHER -> {<<<<R1>>>>}

(***************************************************************************)
(* The program.                                                            *)
(***************************************************************************)
VARIABLES
    source,          \* r.File: the entries of the input archive
    target,          \* w: the entries created in the output archive, in order
    closed,          \* whether w.Close() has run, and how it ended
    pc,              \* the position of the run
    fileIdx,         \* the index of file in r.File (the copy loop)
    groupsFound,
    output,          \* the io.Writer in hand: the index in target of its entry
    privateChannels,
    chanIdx,         \* the index of channel in privateChannels
    cursor,
    res,
    ts_ids,
    tsIdx,           \* the index of tsId in tsIds (the replies loop)
    err,             \* the error that ended a fetcher or the run
    requests,        \* every request sent to the remote, in order
    script,          \* the remote: the script of the pagination under way
    served,          \* the remote: the responses of the pagination under way
    remote,          \* the remote: every script it has served from, in order
    scope            \* where the remote's data is rich

vars == <<source, target, closed, pc, fileIdx, groupsFound, output, privateChannels, chanIdx, cursor, res, ts_ids, tsIdx, err, requests, script, served, remote, scope>>

progVars == <<fileIdx, groupsFound, output, privateChannels, chanIdx, cursor, res, ts_ids, tsIdx>>
fetchVars == <<cursor, res, ts_ids, tsIdx>>
remoteVars == <<requests, script, served, remote>>

Nil == [kind |-> "nil", code |-> 0]
Error(kind, code) == [kind |-> kind, code |-> code]

privateChannelsApiToken == "xoxp"

\* a slip: the entry is created by name alone, as w.Create(file.Name) would
CreateHeaderByName(w, header) == Append(w, Entry(Header(header.name, "Deflate"), <<>>))

\* w.CreateHeader(&header), w.Create(name): a new entry after the others
CreateHeader(w, header) == Append(w, Entry(header, <<>>))
Create(w, name) == CreateHeader(w, Header(name, "Deflate"))

\* a Write through the writer CreateHeader returned: archive/zip takes it only
\* while the entry is the last one created
Writable(w, h) == h = Len(w)
Write(w, h, chunks) == [w EXCEPT ![h].data = @ \o chunks]

\* json.NewEncoder(output); enc.SetIndent("", "    "); enc.Encode(&v)
Encode(v) == [kind |-> "json", raw |-> "", indent |-> "    ", json |-> v]

Init ==
    /\ scope \in Scopes \cup EndlessScopes
    /\ source \in (IF scope = "run" THEN SourceArchives ELSE {<<>>})
    /\ target = <<>>
    /\ closed = "open"
    /\ pc = "copy"
    /\ fileIdx = 1
    /\ groupsFound = FALSE
    /\ output = 0
    /\ privateChannels = <<>>
    /\ chanIdx = 0
    /\ cursor = ""
    /\ res = <<>>
    /\ ts_ids = <<>>
    /\ tsIdx = 0
    /\ err = Nil
    /\ requests = <<>>
    /\ script = <<>>
    /\ served = <<>>
    /\ remote = <<>>

\* os.Exit(1) after the message
Exit(e) == pc' = "exit" /\ err' = e

(***************************************************************************)
(* One iteration of the copy loop (lines 52-80).                           *)
(***************************************************************************)
CopyFile ==
    /\ pc = "copy"
    /\ fileIdx <= Len(source)
    /\ LET file == source[fileIdx]
           created == CreateHeader(target, file.header)
           h == Len(created)
       IN  \E io \in {"ok", "open", "create", "copy"} :
             CASE io = "open" ->
                    /\ Exit(Error("open", 0))
                    /\ UNCHANGED <<target, progVars>>
               [] io = "create" ->
                    /\ Exit(Error("create", 0))
                    /\ UNCHANGED <<target, progVars>>
               [] io = "copy" ->
                    /\ \E n \in 0..Len(file.data) : target' = Write(created, h, SubSeq(file.data, 1, n))
                    /\ groupsFound' = (groupsFound \/ file.name = GroupsJson)
                    /\ output' = h
                    /\ Exit(Error("copy", 0))
                    /\ UNCHANGED <<fileIdx, privateChannels, chanIdx, fetchVars>>
               [] OTHER ->
                    /\ target' = Write(created, h, file.data)
                    /\ groupsFound' = (groupsFound \/ file.name = GroupsJson)
                    /\ output' = h
                    /\ fileIdx' = fileIdx + 1
                    /\ UNCHANGED <<pc, err, privateChannels, chanIdx, fetchVars>>
    /\ UNCHANGED <<source, closed, remoteVars, scope>>

(***************************************************************************)
(* After the loop: w.Create("groups.json"), then createGroupsJson unless   *)
(* the source held a groups.json (lines 82-92).                            *)
(***************************************************************************)
\* a slip: w.Create("groups.json") is called only when the source held none
CreateGroupsUnlessFound ==
    /\ pc = "copy"
    /\ fileIdx > Len(source)
    /\ \E io \in {"ok", "create"} :
         IF groupsFound
         THEN /\ pc' = "close"
              /\ UNCHANGED <<target, output, cursor, res, err>>
         ELSE IF io = "create"
         THEN /\ pc' = "done"
              /\ err' = Error("create", 0)
              /\ UNCHANGED <<target, output, cursor, res>>
         ELSE /\ target' = Create(target, GroupsJson)
              /\ output' = Len(target) + 1
              /\ pc' = "list"
              /\ cursor' = ""
              /\ res' = <<>>
              /\ UNCHANGED err
    /\ UNCHANGED <<source, closed, fileIdx, groupsFound, privateChannels, chanIdx, ts_ids, tsIdx, remoteVars, scope>>

CreateGroups ==
    /\ pc = "copy"
    /\ fileIdx > Len(source)
    /\ \E io \in {"ok", "create"} :
         IF io = "create"
         THEN /\ pc' = "done"
              /\ err' = Error("create", 0)
              /\ UNCHANGED <<target, output, cursor, res>>
         ELSE /\ target' = Create(target, GroupsJson)
              /\ output' = Len(target) + 1
              /\ pc' = IF groupsFound THEN "close" ELSE "list"
              /\ cursor' = IF groupsFound THEN cursor ELSE ""
              /\ res' = IF groupsFound THEN res ELSE <<>>
              /\ UNCHANGED err
    /\ UNCHANGED <<source, closed, fileIdx, groupsFound, privateChannels, chanIdx, ts_ids, tsIdx, remoteVars, scope>>

(***************************************************************************)
(* What the three fetchers share: the request of one loop iteration and    *)
(* the checks on its response.                                             *)
(***************************************************************************)
ListURL == "https://slack.com/api/conversations.list"
HistoryURL == "https://slack.com/api/conversations.history"
RepliesURL == "https://slack.com/api/conversations.replies"

\* a slip: the cursor parameter is added even when cursor is ""
RequestAlwaysCursor(url, params, c, token) == [method |-> "GET", url |-> url, query |-> params \cup {<<"cursor", c>>}, auth |-> <<"Bearer ", token>>]

\* http.NewRequest("GET", url, nil) with its query and Authorization header:
\* the cursor parameter is added only when cursor is not ""
Request(url, params, c, token) == [method |-> "GET", url |-> url, query |-> params \cup (IF c # "" THEN {<<"cursor", c>>} ELSE {}), auth |-> <<"Bearer ", token>>]

\* a slip: data.Ok is not looked at
OutcomeWithoutOk(resp) ==
    CASE resp.doErr -> Error("transport", 0)
      [] resp.status # StatusOK -> Error("http", resp.status)
      [] ~resp.decodes -> Error("decode", 0)
      [] OTHER -> Nil

\* a slip: every status of the 2xx range is taken
OutcomeAny2xx(resp) ==
    CASE resp.doErr -> Error("transport", 0)
      [] resp.status \notin 200..299 -> Error("http", resp.status)
      [] ~resp.decodes -> Error("decode", 0)
      [] ~resp.ok -> Error("api", 0)
      [] OTHER -> Nil

\* the checks between client.Do and the append, in the code's order
Outcome(resp) ==
    CASE resp.doErr -> Error("transport", 0)
      [] resp.status # StatusOK -> Error("http", resp.status)
      [] ~resp.decodes -> Error("decode", 0)
      [] ~resp.ok -> Error("api", 0)
      [] OTHER -> Nil

\* slips: the page is put in front of the records; the page replaces them
PrependPage(acc, recs) == recs \o acc
ReplacePage(acc, recs) == recs

\* res = append(res, data.Messages...), res = append(res, data.Channels...)
AppendPage(acc, recs) == acc \o recs

\* slips: the loop is left after its first page whatever the cursor; the
\* loop is never left
LastPageAlways(c) == TRUE
LastPageNever(c) == FALSE

\* the loop's exit: if cursor == "" { break }
LastPage(c) == c = ""

\* what the endpoint can answer in this run
AnswersOf(endpoint, s, req) == IF scope = Forever[endpoint] THEN EndlessAnswers(s, req) ELSE Answers(s, req)

\* the remote takes up a script at the first request of a pagination
Exchange(pool, key, req, s, resp) ==
    /\ scope = Forever[key[1]] => Len(served) < MaxLoop
    /\ s \in (IF served = <<>> THEN pool ELSE {script})
    /\ resp \in AnswersOf(key[1], s, req)
    /\ script' = s
    /\ requests' = Append(requests, req)
    /\ served' = Append(served, resp)
    /\ remote' = IF served = <<>> THEN Append(remote, [key |-> key, script |-> s]) ELSE remote

(***************************************************************************)
(* fetchPrivateChannelsList: one iteration of its loop (lines 299-349),    *)
(* and on the last page the return to createGroupsJson.                    *)
(***************************************************************************)
ListRequest == Request(ListURL, {<<"limit", "1000">>, <<"types", "private_channel">>}, cursor, privateChannelsApiToken)

ListPage ==
    /\ pc = "list"
    /\ \E s \in ListScripts(scope) \cup {script} : \E resp \in AnswersOf("list", s, ListRequest) :
         /\ Exchange(ListScripts(scope), <<"list", "", "">>, ListRequest, s, resp)
         /\ IF Outcome(resp) # Nil
            THEN /\ Exit(Outcome(resp))
                 /\ UNCHANGED <<res, cursor, privateChannels>>
            ELSE /\ res' = AppendPage(res, resp.recs)
                 /\ cursor' = resp.next
                 /\ IF LastPage(resp.next)
                    THEN pc' = "encode" /\ privateChannels' = AppendPage(res, resp.recs)
                    ELSE UNCHANGED <<pc, privateChannels>>
                 /\ UNCHANGED err
    /\ UNCHANGED <<source, target, closed, fileIdx, groupsFound, output, chanIdx, ts_ids, tsIdx, scope>>

(***************************************************************************)
(* createGroupsJson: the listing is encoded into the groups.json entry     *)
(* (lines 112-118).                                                        *)
(***************************************************************************)
EncodeGroups ==
    /\ pc = "encode"
    /\ \E io \in {"ok", "write"} :
         IF io = "write" \/ ~Writable(target, output)
         THEN Exit(Error("write", 0)) /\ UNCHANGED <<target, chanIdx>>
         ELSE /\ target' = Write(target, output, <<Encode(privateChannels)>>)
              /\ chanIdx' = 1
              /\ pc' = "channel"
              /\ UNCHANGED err
    /\ UNCHANGED <<source, closed, fileIdx, groupsFound, output, privateChannels, fetchVars, remoteVars, scope>>

(***************************************************************************)
(* createGroupsJson: the head of the channel loop, the messages.json entry *)
(* and the call of fetchChannelHistory (lines 121-132); after the last     *)
(* channel the return to fetchPrivateChannels.                             *)
(***************************************************************************)
channelId == privateChannels[chanIdx].id[2]
\* a slip: the directory is named after the channel's id
channelNameFromId == privateChannels[chanIdx].id[2]

channelName == privateChannels[chanIdx].name[2]

\* a slip: both entries of the channel are created before its history is fetched
NextChannelBothEntries ==
    /\ pc = "channel"
    /\ IF chanIdx > Len(privateChannels)
       THEN /\ pc' = "close"
            /\ UNCHANGED <<target, output, err, fetchVars, served>>
       ELSE \E io \in {"ok", "create"} :
              IF io = "create"
              THEN Exit(Error("create", 0)) /\ UNCHANGED <<target, output, fetchVars, served>>
              ELSE /\ target' = Create(Create(target, Path(channelName, "/messages.json")), Path(channelName, "/replies.json"))
                   /\ output' = Len(target) + 1
                   /\ res' = <<>>
                   /\ ts_ids' = <<>>
                   /\ cursor' = ""
                   /\ served' = <<>>
                   /\ pc' = "history"
                   /\ UNCHANGED <<err, tsIdx>>
    /\ UNCHANGED <<source, closed, fileIdx, groupsFound, privateChannels, chanIdx, requests, script, remote, scope>>

NextChannel ==
    /\ pc = "channel"
    /\ IF chanIdx > Len(privateChannels)
       THEN /\ pc' = "close"
            /\ UNCHANGED <<target, output, err, fetchVars, served>>
       ELSE \E io \in {"ok", "create"} :
              IF io = "create"
              THEN Exit(Error("create", 0)) /\ UNCHANGED <<target, output, fetchVars, served>>
              ELSE /\ target' = Create(target, Path(channelName, "/messages.json"))
                   /\ output' = Len(target) + 1
                   /\ res' = <<>>
                   /\ ts_ids' = <<>>
                   /\ cursor' = ""
                   /\ served' = <<>>
                   /\ pc' = "history"
                   /\ UNCHANGED <<err, tsIdx>>
    /\ UNCHANGED <<source, closed, fileIdx, groupsFound, privateChannels, chanIdx, requests, script, remote, scope>>

(***************************************************************************)
(* fetchChannelHistory: one iteration of its loop (lines 157-216), then    *)
(* the encoding of the messages and the return (lines 217-220).            *)
(***************************************************************************)
RECURSIVE ThreadIdsAnyReplyCount(_)
\* a slip: reply_count is looked up without the assertion that it is a number
ThreadIdsAnyReplyCount(messages) ==
    IF messages = <<>>
    THEN <<>>
    ELSE LET message == Head(messages)
             has_reply_count == message.reply_count # Absent
             present == IsString(message.ts)
         IN  (IF has_reply_count /\ present THEN <<message.ts[2]>> ELSE <<>>) \o ThreadIdsAnyReplyCount(Tail(messages))

RECURSIVE ThreadIds(_)
\* lines 200-208 over the messages of one page
ThreadIds(messages) ==
    IF messages = <<>>
    THEN <<>>
    ELSE LET message == Head(messages)
             has_reply_count == IsFloat64(message.reply_count)
             present == IsString(message.ts)
         IN  (IF has_reply_count /\ present THEN <<message.ts[2]>> ELSE <<>>) \o ThreadIds(Tail(messages))

HistoryRequest == Request(HistoryURL, {<<"limit", "200">>, <<"channel", channelId>>}, cursor, privateChannelsApiToken)

\* a slip: every page is encoded into the entry as soon as it is received
HistoryPageStreaming ==
    /\ pc = "history"
    /\ \E s \in HistoryScripts(scope) \cup {script} : \E resp \in AnswersOf("history", s, HistoryRequest) :
         /\ Exchange(HistoryScripts(scope), <<"history", channelId, "">>, HistoryRequest, s, resp)
         /\ IF Outcome(resp) # Nil
            THEN /\ Exit(Outcome(resp))
                 /\ UNCHANGED <<res, cursor, ts_ids, target>>
            ELSE /\ res' = AppendPage(res, resp.recs)
                 /\ target' = Write(target, output, <<Encode(resp.recs)>>)
                 /\ ts_ids' = ts_ids \o ThreadIds(resp.recs)
                 /\ cursor' = resp.next
                 /\ pc' = IF LastPage(resp.next) THEN "replies_create" ELSE pc
                 /\ UNCHANGED err
    /\ UNCHANGED <<source, closed, fileIdx, groupsFound, output, privateChannels, chanIdx, tsIdx, scope>>

HistoryPage ==
    /\ pc = "history"
    /\ \E s \in HistoryScripts(scope) \cup {script} : \E resp \in AnswersOf("history", s, HistoryRequest) :
         /\ Exchange(HistoryScripts(scope), <<"history", channelId, "">>, HistoryRequest, s, resp)
         /\ IF Outcome(resp) # Nil
            THEN /\ Exit(Outcome(resp))
                 /\ UNCHANGED <<res, cursor, ts_ids>>
            ELSE /\ res' = AppendPage(res, resp.recs)
                 /\ ts_ids' = ts_ids \o ThreadIds(resp.recs)
                 /\ cursor' = resp.next
                 /\ pc' = IF LastPage(resp.next) THEN "history_encode" ELSE pc
                 /\ UNCHANGED err
    /\ UNCHANGED <<source, target, closed, fileIdx, groupsFound, output, privateChannels, chanIdx, tsIdx, scope>>

HistoryEncode ==
    /\ pc = "history_encode"
    /\ \E io \in {"ok", "write"} :
         IF io = "write" \/ ~Writable(target, output)
         THEN Exit(Error("write", 0)) /\ UNCHANGED target
         ELSE /\ target' = Write(target, output, <<Encode(res)>>)
              /\ pc' = "replies_create"
              /\ UNCHANGED err
    /\ UNCHANGED <<source, closed, progVars, remoteVars, scope>>

(***************************************************************************)
(* createGroupsJson: the replies.json entry and the call of                *)
(* fetchChannelReplies (lines 137-141).                                    *)
(***************************************************************************)
CreateReplies ==
    /\ pc = "replies_create"
    /\ \E io \in {"ok", "create"} :
         IF io = "create"
         THEN Exit(Error("create", 0)) /\ UNCHANGED <<target, output, res, cursor, tsIdx>>
         ELSE /\ target' = Create(target, Path(channelName, "/replies.json"))
              /\ output' = Len(target) + 1
              /\ res' = <<>>
              /\ cursor' = ""
              /\ tsIdx' = 1
              /\ pc' = "replies_ts"
              /\ UNCHANGED err
    /\ UNCHANGED <<source, closed, fileIdx, groupsFound, privateChannels, chanIdx, ts_ids, remoteVars, scope>>

(***************************************************************************)
(* fetchChannelReplies: the head of the loop over tsIds (line 230), one    *)
(* iteration of the inner loop (lines 231-282), the encoding (lines        *)
(* 284-287).  createGroupsJson drops the error fetchChannelReplies returns *)
(* (line 141) and goes on with the next channel.                           *)
(***************************************************************************)
\* a slip: the loop goes on with the channel after the next
ReturnSkippingChannel == pc' = "channel" /\ chanIdx' = chanIdx + 2

\* back in createGroupsJson, at the end of the channel's iteration
ReturnToChannelLoop == pc' = "channel" /\ chanIdx' = chanIdx + 1

RepliesNextTs ==
    /\ pc = "replies_ts"
    /\ pc' = IF tsIdx > Len(ts_ids) THEN "replies_encode" ELSE "replies"
    /\ served' = <<>>
    /\ UNCHANGED <<source, target, closed, progVars, err, requests, script, remote, scope>>

RepliesRequest == Request(RepliesURL, {<<"limit", "200">>, <<"channel", channelId>>, <<"ts", ts_ids[tsIdx]>>}, cursor, privateChannelsApiToken)

RepliesPage ==
    /\ pc = "replies"
    /\ \E s \in ReplyScripts(scope) \cup {script} : \E resp \in AnswersOf("replies", s, RepliesRequest) :
         /\ Exchange(ReplyScripts(scope), <<"replies", channelId, ts_ids[tsIdx]>>, RepliesRequest, s, resp)
         /\ IF Outcome(resp) # Nil
            THEN /\ err' = Outcome(resp)
                 /\ ReturnToChannelLoop
                 /\ UNCHANGED <<res, cursor, tsIdx>>
            ELSE /\ res' = AppendPage(res, resp.recs)
                 /\ cursor' = resp.next
                 /\ IF LastPage(resp.next)
                    THEN pc' = "replies_ts" /\ tsIdx' = tsIdx + 1
                    ELSE UNCHANGED <<pc, tsIdx>>
                 /\ UNCHANGED <<err, chanIdx>>
    /\ UNCHANGED <<source, target, closed, fileIdx, groupsFound, output, privateChannels, ts_ids, scope>>

RepliesEncode ==
    /\ pc = "replies_encode"
    /\ \E io \in {"ok", "write"} :
         IF io = "write" \/ ~Writable(target, output)
         THEN err' = Error("write", 0) /\ UNCHANGED target
         ELSE target' = Write(target, output, <<Encode(res)>>) /\ UNCHANGED err
    /\ ReturnToChannelLoop
    /\ UNCHANGED <<source, closed, fileIdx, groupsFound, output, privateChannels, fetchVars, remoteVars, scope>>

(***************************************************************************)
(* fetchPrivateChannels: w.Close() and return nil (lines 94-100).          *)
(***************************************************************************)
Close ==
    /\ pc = "close"
    /\ \E io \in {"ok", "close"} : closed' = IF io = "ok" THEN "closed" ELSE "close failed"
    /\ pc' = "done"
    /\ UNCHANGED <<source, target, progVars, err, remoteVars, scope>>

Next ==
    \/ CopyFile
    \/ CreateGroups
    \/ ListPage
    \/ EncodeGroups
    \/ NextChannel
    \/ HistoryPage
    \/ HistoryEncode
    \/ CreateReplies
    \/ RepliesNextTs
    \/ RepliesPage
    \/ RepliesEncode
    \/ Close

Spec == Init /\ [][Next]_vars

\* The runs whose termination is checked.  The program is sequential and
\* takes its next step whenever it has one: every call returns, client.Do
\* included (the remote answers every request).  The scope "replies" is left
\* out: its runs take the steps of the runs of scope "run" and differ from
\* them in the records of the reply pages only.
InitFair == Init /\ scope # "replies"
SpecFair == InitFair /\ [][Next]_vars /\ WF_vars(Next)

(***************************************************************************)
(* Properties.                                                             *)
(***************************************************************************)
NamedGroupsJson(w) == {i \in DOMAIN w : w[i].name = GroupsJson}
SourceHasGroupsJson == NamedGroupsJson(source) # {}
CopyLoopDone == fileIdx > Len(source)
ReachedClose == pc = "close" \/ (pc = "done" /\ closed # "open")

C2_ExactlyOneGroupsJson == ReachedClose => Cardinality(NamedGroupsJson(target)) = 1

\* C3: when the source holds a "groups.json", a run that reaches the close step
\* has sent no request, has created no messages.json or replies.json entry, and
\* every target entry named "groups.json" has the bytes of a source entry of
\* that name.
C3_GroupsJsonKept ==
    (SourceHasGroupsJson /\ ReachedClose) =>
        /\ requests = <<>>
        /\ \A i \in DOMAIN target : i > Len(source) => target[i].name[2] \notin {"/messages.json", "/replies.json"}
        /\ \A i \in NamedGroupsJson(target) : \E j \in NamedGroupsJson(source) : target[i].data = source[j].data

\* the scripts the remote has served from for one endpoint, in order
ScriptsOf(endpoint) == SelectSeq(remote, LAMBDA e : e.key[1] = endpoint)
NoFailure == err = Nil

Last(q) == q[Len(q)]
\* the requests of the pagination under way, one for each response in served
PaginationRequests == SubSeq(requests, Len(requests) - Len(served) + 1, Len(requests))
HasCursorParam(req) == \E p \in req.query : p[1] = "cursor"
\* the response passed every check of the fetcher
Accepted(resp) == ~resp.doErr /\ resp.status = 200 /\ resp.decodes /\ resp.ok
\* the response reached the ok check and failed it
Rejected(resp) == ~resp.doErr /\ resp.status = 200 /\ resp.decodes /\ ~resp.ok
\* one request for each page of the script, in page order, and no other
OneRequestPerPage(reqs, url, pages) ==
    /\ Len(reqs) = Len(pages)
    /\ \A i \in DOMAIN reqs : reqs[i].url = url /\ PageIndex(CursorParam(reqs[i])) = i

\* C5: when fetchPrivateChannelsList returns without error it returns the
\* records of all pages of the remote's script in page order and has sent one
\* request for each page; when fetchChannelHistory has encoded without error
\* the entry holds the encoding of the records of all pages in page order and
\* one request was sent for each page.
C5_PagesConcatenated ==
    /\ pc = "encode" =>
         /\ privateChannels = Flatten(script)
         /\ OneRequestPerPage(PaginationRequests, ListURL, script)
    /\ pc = "history_encode" =>
         /\ res = Flatten(script)
         /\ OneRequestPerPage(PaginationRequests, HistoryURL, script)
    /\ pc = "replies_create" =>
         /\ target[output].data = <<Encode(Flatten(script))>>
         /\ OneRequestPerPage(PaginationRequests, HistoryURL, script)

\* a history of two different pages of several records each, encoded
C5_Witness ==
    /\ pc = "replies_create"
    /\ Len(script) = 2
    /\ Len(script[1]) > 1
    /\ Len(script[2]) > 1
    /\ script[1] # script[2]
    /\ Len(target[output].data[1].json) = Len(script[1]) + Len(script[2])

\* C6: in every pagination (the listing, a history, the replies of one
\* timestamp) the first request has no cursor parameter, every later request
\* has the cursor parameter set to the next_cursor of the response before it,
\* and every response but the last was accepted and carried a next_cursor.
C6_CursorFollowsResponse ==
    LET reqs == PaginationRequests
    IN  /\ served # <<>> => ~HasCursorParam(reqs[1])
        /\ \A i \in 2..Len(served) :
             /\ {p \in reqs[i].query : p[1] = "cursor"} = {<<"cursor", served[i - 1].next>>}
             /\ Accepted(served[i - 1])
             /\ served[i - 1].next # ""

\* the second timestamp of a replies call has been paginated over three pages
C6_Witness ==
    /\ pc = "replies_ts"
    /\ tsIdx = 3
    /\ Len(served) = 3
    /\ CursorParam(PaginationRequests[2]) # CursorParam(PaginationRequests[3])

\* C7 as claimed: when the first request for a second or later timestamp is
\* built after a pagination that handed out cursors, the cursor variable is
\* not empty.
C7_StaleCursorCarriedOver ==
    (pc = "replies" /\ served = <<>> /\ tsIdx > 1 /\ Len(script) > 1) => cursor # ""

\* C7 as amended: whenever fetchChannelReplies is about to build the first
\* request for a timestamp, the cursor variable is empty.
C7_CursorEmptyAtFirstRequest == (pc = "replies" /\ served = <<>>) => cursor = ""

\* the first request for the second timestamp is about to be built, and the
\* first timestamp's pagination took two pages
C7_Witness ==
    /\ pc = "replies"
    /\ served = <<>>
    /\ tsIdx = 2
    /\ Len(script) = 2
    /\ Last(remote).key[1] = "replies"
    /\ HasCursorParam(Last(requests))

RECURSIVE TotalPages(_)
TotalPages(scripts) == IF scripts = <<>> THEN 0 ELSE Len(Head(scripts).script) + TotalPages(Tail(scripts))
\* fetchChannelReplies has returned after a successful Encode
RepliesEncoded == pc = "channel" /\ chanIdx > 1 /\ target[output].data # <<>>

\* C8: when fetchChannelReplies has encoded, the replies.json entry holds the
\* encoding of the records of every timestamp's script (all of its pages, in
\* page order), timestamp after timestamp in the order of tsIds; the call
\* sent one request for each of these pages and no other, so none when tsIds
\* is empty.
C8_RepliesConcatenated ==
    RepliesEncoded =>
        LET all == ScriptsOf("replies")
            threads == SubSeq(all, Len(all) - Len(ts_ids) + 1, Len(all))
            n == TotalPages(threads)
            id == privateChannels[chanIdx - 1].id[2]
        IN  /\ Len(all) >= Len(ts_ids)
            /\ \A j \in DOMAIN ts_ids : threads[j].key = <<"replies", id, ts_ids[j]>>
            /\ target[output].data = <<Encode(Flatten([j \in DOMAIN ts_ids |-> Flatten(threads[j].script)]))>>
            /\ Len(requests) > n
            /\ requests[Len(requests) - n].url = HistoryURL
            /\ \A i \in 1..n : requests[Len(requests) - n + i].url = RepliesURL

\* two timestamps, each with two pages of replies that differ, encoded
C8_Witness ==
    /\ RepliesEncoded
    /\ Len(ts_ids) = 2
    /\ ts_ids[1] # ts_ids[2]
    /\ LET all == ScriptsOf("replies")
       IN  /\ Len(all) = 2
           /\ Len(all[1].script) = 2
           /\ Len(all[2].script) = 2
           /\ all[1].script[1] # <<>>
           /\ all[1].script[2] # <<>>
           /\ all[1].script # all[2].script

\* the ts of the messages that have a numeric reply_count and a string ts
ParentTimestamps(messages) ==
    LET parents == SelectSeq(messages, LAMBDA m : m.reply_count[1] = "number" /\ m.ts[1] = "string")
    IN  [i \in DOMAIN parents |-> parents[i].ts[2]]

\* C9: the thread-parent ids fetchChannelHistory returns are the ts values of
\* the messages of all pages that have a reply_count (a number) and a ts (a
\* string), one for each such message, in the order of the messages.
C9_ThreadParentIds ==
    pc \in {"history_encode", "replies_create"} => ts_ids = ParentTimestamps(Flatten(script))

\* a history of two pages with parents, a message without reply_count, one
\* whose reply_count is no number, and the same parent on both pages
C9_Witness ==
    /\ pc = "replies_create"
    /\ script = <<<<X1, P2, P1>>, <<P1, N1>>>>
    /\ ts_ids = <<"2.0", "1.0", "1.0">>

\* C10: a step that receives a response with ok=false ends the call with the
\* API-rejection error (the run exits, or createGroupsJson goes on after
\* fetchChannelReplies), and no request follows such a response in its
\* pagination.
C10_ApiRejectionEndsCall ==
    [][/\ (served' # served /\ served' # <<>> /\ Rejected(Last(served'))) => (err' = Error("api", 0) /\ pc' \in {"exit", "channel"})
       /\ (requests' # requests /\ served # <<>>) => ~Rejected(Last(served))]_vars

\* the second page of a history was answered with ok=false
C10_Witness ==
    /\ Len(served) = 2
    /\ Rejected(served[2])
    /\ Last(remote).key[1] = "history"
    /\ pc = "exit"

\* a transport, status, decode or API-rejection error of a fetcher
FetchErrors == {"transport", "http", "decode", "api"}

\* C11: once a history fetch, a replies fetch or an entry creation of
\* createGroupsJson has failed, no request is issued and no entry is created
\* any more, for that channel or a later one.
C11_FailurePropagated ==
    [][(err # Nil /\ chanIdx >= 1) => (requests' = requests /\ Len(target') = Len(target))]_vars

\* the step received a response: client.Do returned one
Received == served' # served /\ served' # <<>> /\ ~Last(served').doErr
\* the call went on after the response: to its next request, or to its encoding
CallGoesOn == pc' \in {"list", "encode", "history", "history_encode", "replies", "replies_ts"} /\ err' = err

\* C12 (as the code has it): a response whose status is not 200, another 2xx
\* status included, ends the call with the error that carries the status, and
\* no request follows it in its pagination; a response whose status is 200
\* goes on to decoding: it ends the call with the decode error when its body
\* does not decode, with the API rejection when it says ok=false, and
\* otherwise the call goes on.
C12_StatusOtherThan200 ==
    [][/\ Received =>
            LET resp == Last(served')
            IN  /\ resp.status # StatusOK => (err' = Error("http", resp.status) /\ pc' \in {"exit", "channel"})
                /\ (resp.status = StatusOK /\ ~resp.decodes) => (err' = Error("decode", 0) /\ pc' \in {"exit", "channel"})
                /\ (resp.status = StatusOK /\ resp.decodes /\ resp.ok) => CallGoesOn
       /\ (requests' # requests /\ served # <<>>) => Last(served).status = StatusOK]_vars

\* C12 (as stated): a response whose status is inside the 2xx range is not
\* treated as a transport error.
C12_Any2xxAccepted ==
    [][(Received /\ Last(served').status \in 200..299) => err' # Error("http", Last(served').status)]_vars

\* the second page of a replies pagination came with status 204 and ended
\* fetchChannelReplies with the error that carries 204
C12_Witness ==
    /\ Len(served) = 2
    /\ ~served[2].doErr
    /\ served[2].status = 204
    /\ served[2].decodes /\ served[2].ok
    /\ Last(requests).url = RepliesURL
    /\ err = Error("http", 204)
    /\ pc = "channel"

\* C13: w.Close() has run only in runs without a fetch-level failure: when
\* the close step has been executed, no fetcher has ended with a transport,
\* status, decode or API-rejection error.
C13_NoCloseAfterFetchFailure ==
    closed # "open" => err.kind \notin FetchErrors

\* the channel whose messages.json and replies.json are the entries 2k and
\* 2k+1 after the copied ones
ChannelAt(i) == (i - Len(source)) \div 2
ListingComplete == remote # <<>> /\ privateChannels = Flatten(remote[1].script) /\ pc \notin {"copy", "list"}
PaginationComplete == served # <<>> /\ Accepted(Last(served)) /\ Last(served).next = ""

\* C14: the order of the events of a run.  An entry is created at position i
\* of the target: a copy of source entry i while no request has been sent;
\* then groups.json, when every source entry has been copied and still no
\* request has been sent; then, for the k-th listed channel, its
\* messages.json once the listing is complete, and its replies.json once its
\* history pagination is complete and encoded.  A request is sent: to
\* conversations.list only while groups.json is the last entry and nothing
\* but the listing has been requested; to conversations.history for channel
\* k only while k's messages.json is the last entry; to conversations.replies
\* for channel k only while k's replies.json is the last entry.  Entries are
\* never removed, so the events of channel k precede those of channel k+1.
C14_EventOrder ==
    [][/\ Len(target') >= Len(target)
       /\ Len(target') <= Len(target) + 1
       /\ Len(target') > Len(target) =>
            LET i == Len(target')
                n == Len(source)
                k == ChannelAt(i)
            IN  CASE i <= n ->
                       /\ requests = <<>>
                       /\ target'[i].header = source[i].header
                       /\ target = SubSeq(source, 1, i - 1)
                  [] i = n + 1 ->
                       /\ requests = <<>>
                       /\ target'[i].name = GroupsJson
                       /\ target = source
                  [] i > n + 1 /\ (i - n) % 2 = 0 ->
                       /\ ListingComplete
                       /\ k \in DOMAIN privateChannels
                       /\ chanIdx = k
                       /\ target'[i].name = Path(privateChannels[k].name[2], "/messages.json")
                  [] OTHER ->
                       /\ PaginationComplete
                       /\ Last(requests).url = HistoryURL
                       /\ target[i - 1].data # <<>>
                       /\ chanIdx = k
                       /\ target'[i].name = Path(privateChannels[k].name[2], "/replies.json")
       /\ Len(requests') > Len(requests) =>
            LET r == Last(requests')
                m == Len(target)
                n == Len(source)
                k == ChannelAt(m)
            IN  CASE r.url = ListURL ->
                       /\ m = n + 1
                       /\ \A j \in DOMAIN requests : requests[j].url = ListURL
                  [] r.url = HistoryURL ->
                       /\ ListingComplete
                       /\ m > n + 1 /\ (m - n) % 2 = 0
                       /\ target[m].data = <<>>
                       /\ <<"channel", privateChannels[k].id[2]>> \in r.query
                  [] OTHER ->
                       /\ r.url = RepliesURL
                       /\ m > n + 1 /\ (m - n) % 2 = 1
                       /\ target[m - 1].data # <<>>
                       /\ target[m].data = <<>>
                       /\ <<"channel", privateChannels[k].id[2]>> \in r.query]_vars

\* a run without groups.json in a source of two entries, two listed
\* channels, histories and replies fetched for both, at the close
C14_Witness ==
    /\ pc = "close"
    /\ Len(source) = 2
    /\ ~SourceHasGroupsJson
    /\ Len(privateChannels) = 2
    /\ privateChannels[1].id # privateChannels[2].id
    /\ Len(target) = Len(source) + 5
    /\ Len(ScriptsOf("replies")) >= 2
    /\ ScriptsOf("replies")[1].key[2] # Last(ScriptsOf("replies")).key[2]

\* w.Create("groups.json") at line 82 failed: fetchPrivateChannels returned err
CreateGroupsFailed == pc = "done" /\ err = Error("create", 0)

\* C15: once the copy loop is over and w.Create("groups.json") has returned
\* an entry, the target holds an entry named groups.json right after the
\* copied ones, whether or not the source held one; when the source held
\* one, that entry is the last one and holds no bytes, and createGroupsJson
\* has not run: no request was sent and no channel was listed.
C15_GroupsJsonAlwaysCreated ==
    (CopyLoopDone /\ pc # "copy" /\ ~CreateGroupsFailed) =>
        LET g == Len(source) + 1
        IN  /\ Len(target) >= g
            /\ target[g].header = Header(GroupsJson, "Deflate")
            /\ groupsFound = SourceHasGroupsJson
            /\ groupsFound =>
                 /\ Len(target) = g
                 /\ target[g].data = <<>>
                 /\ requests = <<>>
                 /\ remote = <<>>
                 /\ privateChannels = <<>>
                 /\ pc \in {"close", "done"}
            /\ ~groupsFound => (pc = "list" \/ requests # <<>>)

\* the source held a groups.json with content, and the archive was closed
\* with a second, empty groups.json after the copies
C15_Witness ==
    /\ pc = "done"
    /\ closed = "closed"
    /\ groupsFound
    /\ Len(source) = 2
    /\ \E i \in DOMAIN source : target[i].name = GroupsJson /\ target[i].data # <<>>
    /\ target[3].name = GroupsJson
    /\ target[3].data = <<>>

\* the run is over: fetchPrivateChannels returned, or the process exited
Terminated == pc \in {"done", "exit"}
\* the positions inside the three pagination loops
LoopPcs == {"list", "history", "replies"}
\* every response of the pagination under way was taken and carried a cursor
AllCarryOn == \A i \in DOMAIN served : Accepted(served[i]) /\ served[i].next # ""
\* a pagination at an endpoint that never returns the empty cursor, followed
\* for MaxLoop requests throughout which it has gone on
StillLooping == scope \in EndlessScopes /\ pc \in LoopPcs /\ Len(served) = MaxLoop /\ AllCarryOn

\* C16: every iteration of a pagination loop sends one request, and the loop
\* goes on to its next iteration exactly when the response passes every check
\* and carries a non-empty next_cursor: it is left on the first response that
\* fails or carries the empty cursor, and not before.  Every run ends (it
\* returns or exits), except that a pagination whose endpoint never returns
\* the empty cursor and never fails is still looping after MaxLoop requests:
\* a run against such an endpoint ends only with an error.
C16_LoopsEndOnEmptyCursorOrFailure ==
    /\ [][/\ pc \in LoopPcs => (Len(requests') = Len(requests) + 1 /\ Len(served') = Len(served) + 1)
          /\ pc \in LoopPcs => ((pc' = pc) <=> (Accepted(Last(served')) /\ Last(served').next # ""))]_vars
    /\ []((Terminated /\ scope \in EndlessScopes) => err # Nil)
    /\ <>(Terminated \/ StillLooping)

\* the replies endpoint never returned the empty cursor: the pagination went
\* on until its last request was left unanswered, fetchChannelReplies
\* returned, and the run ended
C16_Witness ==
    /\ scope = Forever.replies
    /\ pc = "done"
    /\ Len(served) = MaxLoop
    /\ \A i \in 1..(MaxLoop - 1) : Accepted(served[i]) /\ served[i].next # ""
    /\ served[MaxLoop].doErr

\* the positions from the first request of a fetch to its Encode
FetchPcs == {"list", "encode", "history", "history_encode", "replies_ts", "replies", "replies_encode"}

\* C17: a fetch writes to its entry only after its whole pagination has
\* succeeded.  While a fetch is under way, up to its Encode, its entry
\* (groups.json, messages.json, replies.json) holds no bytes; when the last
\* response of a pagination failed, the entry of that fetch holds no bytes,
\* whatever pages came before; and an entry made by the fetchers holds
\* nothing or one whole encoded array, never a part of one.
C17_EncodeAfterWholePagination ==
    /\ pc \in FetchPcs => target[output].data = <<>>
    /\ (served # <<>> /\ ~Accepted(Last(served))) => target[output].data = <<>>
    /\ CopyLoopDone =>
         \A i \in DOMAIN target : i > Len(source) =>
            \/ target[i].data = <<>>
            \/ Len(target[i].data) = 1 /\ target[i].data[1].kind = "json"

\* a history fetch failed at its second page, after a page of messages had
\* been received: the messages.json entry exists and is empty
C17_Witness ==
    /\ pc = "exit"
    /\ Len(served) = 2
    /\ Accepted(served[1])
    /\ served[1].recs # <<>>
    /\ ~Accepted(served[2])
    /\ res # <<>>
    /\ target[output].name[2] = "/messages.json"
    /\ target[output].data = <<>>

\* C18: bytes are written to an entry only while it is the most recently
\* created entry of the target.  The writer the program has in hand is always
\* the one of the last entry created; and in every step, an entry whose bytes
\* change is the last entry of the target, before the step (a write to an
\* existing entry, with no entry created in the step) or after it (an entry
\* created and filled by the copy), so no entry changes once a later one
\* exists.
C18_WritesToLastEntryOnly ==
    /\ [](output = Len(target))
    /\ [][\A i \in DOMAIN target' :
            IF i \in DOMAIN target
            THEN target'[i].data # target[i].data => (i = Len(target) /\ Len(target') = Len(target) /\ i = output)
            ELSE i = Len(target') /\ i = output']_vars

\* at the close, a copied entry, groups.json, a messages.json and a
\* replies.json all hold bytes
C18_Witness ==
    /\ pc = "close"
    /\ Len(source) >= 1
    /\ Len(target) >= Len(source) + 3
    /\ \A i \in DOMAIN target : target[i].data # <<>>

====
